---------------------------- MODULE Spec2Model ----------------------------
(***************************************************************************)
(* AutoCal (src/app.py): calibration of a DXF drawing against three        *)
(* geographic reference points.                                            *)
(*                                                                         *)
(* Numbers.  Python floats are modelled as exact rationals                 *)
(* [num |-> Int, den |-> positive Int] in lowest terms.  Angles are kept   *)
(* in units of a quarter turn (pi/2): the drawing and target baselines of  *)
(* every input are parallel to an axis, so math.sqrt and math.atan2 take   *)
(* exactly representable values and math.cos / math.sin take the values    *)
(* -1, 0, 1.  Floating rounding is not modelled.                           *)
(***************************************************************************)
EXTENDS Integers, Sequences, FiniteSets, TLC

VARIABLES
    \* ---- core: calculate_transform_params / transform_cal_points
    pc,             \* "input" | "solved" | "raised" | "mapped" | "idle"
    cad_points,     \* PointTriplet of the drawing
    cal_points,     \* dict "A","B","C" -> LongLat of the target space
    transform,      \* outcome of calculate_transform_params
    cal_real,       \* outcome of transform_cal_points
    \* ---- the script under __main__ (one Streamlit run)
    upc,            \* position in the script
    file,           \* st.file_uploader's value
    dxf_file,       \* the Drawing read, or None
    dxf_geometry,   \* DxfGeometry, or None
    cal_points_str, \* the three text inputs
    ui_cal_points,  \* the three parsed values (cal_points of __main__)
    invalid_count,  \* line 271
    calls,          \* functions invoked in this run, in order
    messages,       \* st.success / st.error output of this run, in order
    written         \* what st.write received, or None

coreVars == <<pc, cad_points, cal_points, transform, cal_real>>
uiVars == <<upc, file, dxf_file, dxf_geometry, cal_points_str, ui_cal_points,
            invalid_count, calls, messages, written>>
vars == <<pc, cad_points, cal_points, transform, cal_real,
          upc, file, dxf_file, dxf_geometry, cal_points_str, ui_cal_points,
          invalid_count, calls, messages, written>>

---------------------------------------------------------------------------
(* Bounds *)

\* anchor coordinates (A and a) range over 0..MaxCoord
MaxCoord == 1
\* baseline vectors B - A and b - a have components in -MaxLen..MaxLen
MaxLen == 2
\* a drawing's modelspace holds at most MaxEntities entities
MaxEntities == 5
\* the longer boundary polyline has MaxVertices vertices
MaxVertices == 3

---------------------------------------------------------------------------
(* Exact rational arithmetic standing for Python's float *)

Abs(n) == IF n < 0 THEN -n ELSE n

RECURSIVE GCD(_, _)
GCD(m, n) == IF n = 0 THEN m ELSE GCD(n, m % n)

Rat(n, d) ==
    LET g == GCD(Abs(n), Abs(d))
        sg == IF d < 0 THEN -1 ELSE 1
    IN  [num |-> sg * (n \div g), den |-> sg * (d \div g)]

F(n) == [num |-> n, den |-> 1]
RAdd(p, q) == Rat(p.num * q.den + q.num * p.den, p.den * q.den)
RNeg(p) == [num |-> -p.num, den |-> p.den]
RSub(p, q) == RAdd(p, RNeg(q))
RMul(p, q) == Rat(p.num * q.num, p.den * q.den)
\* defined for q # 0 only
RDiv(p, q) == Rat(p.num * q.den, p.den * q.num)
RIsZero(p) == p.num = 0
RSign(p) == IF p.num > 0 THEN 1 ELSE IF p.num < 0 THEN -1 ELSE 0

\* math.sqrt on the perfect squares (the only arguments the inputs produce)
ISqrt(n) == CHOOSE r \in 0..n : r * r = n
RSqrt(p) == [num |-> ISqrt(p.num), den |-> ISqrt(p.den)]

\* math.atan2(y, x), in quarter turns, for (x, y) on an axis.
\* atan2(0, 0) = 0, atan2(0, x < 0) = pi, atan2(y < 0, 0) = -pi/2.
atan2(y, x) ==
    CASE RSign(y) = 0 /\ RSign(x) >= 0 -> 0
      [] RSign(y) = 0 /\ RSign(x) < 0  -> 2
      [] RSign(x) = 0 /\ RSign(y) > 0  -> 1
      [] RSign(x) = 0 /\ RSign(y) < 0  -> -1

\* math.cos / math.sin of theta quarter turns
cos(theta) == F(CASE theta % 4 = 0 -> 1 [] theta % 4 = 2 -> -1 [] OTHER -> 0)
sin(theta) == F(CASE theta % 4 = 1 -> 1 [] theta % 4 = 3 -> -1 [] OTHER -> 0)

---------------------------------------------------------------------------
(* Data classes *)

None == [none |-> TRUE]

LongLat(longitude, latitude) == [longitude |-> longitude, latitude |-> latitude]
CalPoint(name, longlat) == [name |-> name, longlat |-> longlat]
PointTriplet(A, B, C) == [A |-> A, B |-> B, C |-> C]
Transform(s, dx, dy, theta) == [s |-> s, dx |-> dx, dy |-> dy, theta |-> theta]
DxfGeometry(point_a, point_b, point_c, boundary) ==
    [point_a |-> point_a, point_b |-> point_b, point_c |-> point_c,
     boundary |-> boundary]

\* LongLat.distance, and LongLat.__sub__ which returns it
distance(self, other) ==
    RSqrt(RAdd(RMul(RSub(self.longitude, other.longitude),
                    RSub(self.longitude, other.longitude)),
               RMul(RSub(self.latitude, other.latitude),
                    RSub(self.latitude, other.latitude))))
sub(self, other) == distance(self, other)

\* outcomes of a call: a returned value or a raised exception
Returned(v) == [raised |-> "none", value |-> v]
Raised(e) == [raised |-> e, value |-> None]

---------------------------------------------------------------------------
(* TransformSolver and PointMapper *)

\* variant: the translation is anchored at the C correspondence
calculate_transform_params_anchor_C(cal, cad) ==
    LET A == cad.A.longlat
        B == cad.B.longlat
        a == cal.A
        b == cal.B
    IN  IF a = None \/ b = None
        THEN Raised("AttributeError")
        ELSE
        IF RIsZero(sub(A, B))
        THEN Raised("ZeroDivisionError")
        ELSE Returned(Transform(
                RDiv(sub(a, b), sub(A, B)),
                RSub(cal.C.longitude, cad.C.longlat.longitude),
                RSub(cal.C.latitude, cad.C.longlat.latitude),
                atan2(RSub(B.latitude, A.latitude), RSub(B.longitude, A.longitude))
                - atan2(RSub(b.latitude, a.latitude), RSub(b.longitude, a.longitude))))

\* variant: the scale is the projection (u . v) / (u . u)
calculate_transform_params_projection(cal, cad) ==
    LET A == cad.A.longlat
        B == cad.B.longlat
        a == cal.A
        b == cal.B
    IN  IF a = None \/ b = None
        THEN Raised("AttributeError")
        ELSE
        LET ux == RSub(B.longitude, A.longitude)
            uy == RSub(B.latitude, A.latitude)
            vx == RSub(b.longitude, a.longitude)
            vy == RSub(b.latitude, a.latitude)
        IN  IF RIsZero(sub(A, B))
            THEN Raised("ZeroDivisionError")
            ELSE Returned(Transform(
                    RDiv(RAdd(RMul(ux, vx), RMul(uy, vy)),
                         RAdd(RMul(ux, ux), RMul(uy, uy))),
                    RSub(a.longitude, A.longitude),
                    RSub(a.latitude, A.latitude),
                    atan2(uy, ux) - atan2(vy, vx)))

calculate_transform_params(cal, cad) ==
    LET A == cad.A.longlat
        B == cad.B.longlat
        a == cal.A
        b == cal.B
    IN  IF a = None \/ b = None
        THEN Raised("AttributeError")
        ELSE
        LET dx == RSub(a.longitude, A.longitude)
            dy == RSub(a.latitude, A.latitude)
        IN  IF RIsZero(sub(A, B))
            THEN Raised("ZeroDivisionError")
            ELSE
            LET s == RDiv(sub(a, b), sub(A, B))
                theta == atan2(RSub(B.latitude, A.latitude),
                               RSub(B.longitude, A.longitude))
                         - atan2(RSub(b.latitude, a.latitude),
                                 RSub(b.longitude, a.longitude))
            IN  Returned(Transform(s, dx, dy, theta))

\* variant: the rotation is applied before the translation
transform_point_rotate_first(point, t) ==
    LET x1 == RMul(point.longitude, t.s)
        y1 == RMul(point.latitude, t.s)
    IN  << RAdd(RSub(RMul(x1, cos(t.theta)), RMul(y1, sin(t.theta))), t.dx),
           RAdd(RAdd(RMul(x1, sin(t.theta)), RMul(y1, cos(t.theta))), t.dy) >>

transform_point(point, t) ==
    LET x0 == point.longitude
        y0 == point.latitude
        x1 == RAdd(RMul(x0, t.s), t.dx)
        y1 == RAdd(RMul(y0, t.s), t.dy)
    IN  << RSub(RMul(x1, cos(t.theta)), RMul(y1, sin(t.theta))),
           RAdd(RMul(x1, sin(t.theta)), RMul(y1, cos(t.theta))) >>

transform_cal_points(cad, t) ==
    LET point_a_real == transform_point(cad.A.longlat, t)
        point_b_real == transform_point(cad.B.longlat, t)
        point_c_real == transform_point(cad.C.longlat, t)
    IN  [A |-> LongLat(point_a_real[1], point_a_real[2]),
         B |-> LongLat(point_b_real[1], point_b_real[2]),
         C |-> LongLat(point_c_real[1], point_c_real[2])]

---------------------------------------------------------------------------
(* Inputs of the core *)

Pt(x, y) == LongLat(F(x), F(y))

Anchors == {Pt(x, y) : x \in 0..MaxCoord, y \in 0..MaxCoord}
Baselines == {<<k, 0>> : k \in -MaxLen..MaxLen} \cup {<<0, k>> : k \in -MaxLen..MaxLen}
ThirdPoints == {Pt(0, 1), Pt(1, 1)}
Shift(p, u) == LongLat(RAdd(p.longitude, F(u[1])), RAdd(p.latitude, F(u[2])))

CadInputs ==
    {PointTriplet(CalPoint("POINT_A", A), CalPoint("POINT_B", Shift(A, u)),
                  CalPoint("POINT_C", C)) :
        A \in Anchors, u \in Baselines, C \in ThirdPoints}
CalInputs ==
    {[A |-> a, B |-> Shift(a, v), C |-> c] :
        a \in Anchors, v \in Baselines, c \in ThirdPoints}

---------------------------------------------------------------------------
(* Core specification *)

UiIdle ==
    /\ upc = "idle"
    /\ file = None
    /\ dxf_file = None
    /\ dxf_geometry = None
    /\ cal_points_str = None
    /\ ui_cal_points = None
    /\ invalid_count = 0
    /\ calls = <<>>
    /\ messages = <<>>
    /\ written = None

Init ==
    /\ pc = "input"
    /\ cad_points \in CadInputs
    /\ cal_points \in CalInputs
    /\ transform = None
    /\ cal_real = None
    /\ UiIdle

\* generate_calibrated_geojson, line 203
CalculateTransformParams ==
    /\ pc = "input"
    /\ transform' = calculate_transform_params(cal_points, cad_points)
    /\ pc' = IF transform'.raised = "none" THEN "solved" ELSE "raised"
    /\ UNCHANGED <<cad_points, cal_points, cal_real>>
    /\ UNCHANGED uiVars

\* generate_calibrated_geojson, line 204
TransformCalPoints ==
    /\ pc = "solved"
    /\ cal_real' = transform_cal_points(cad_points, transform.value)
    /\ pc' = "mapped"
    /\ UNCHANGED <<cad_points, cal_points, transform>>
    /\ UNCHANGED uiVars

Next == CalculateTransformParams \/ TransformCalPoints

Spec == Init /\ [][Next]_vars

---------------------------------------------------------------------------
(* LongLat.from_string: strings are sequences of one-character strings *)

Digits == <<"0", "1", "2", "3", "4", "5", "6", "7", "8", "9">>
IsDigit(c) == \E d \in 1..10 : Digits[d] = c
DigitValue(c) == (CHOOSE d \in 1..10 : Digits[d] = c) - 1
IsSpace(c) == c \in {" ", "\t", "\n"}
\* the character at position i, "" past the end
At(str, i) == IF i \in 1..Len(str) THEN str[i] ELSE ""

\* \s* from position i: the position after the white space
RECURSIVE SkipSpace(_, _)
SkipSpace(str, i) == IF IsSpace(At(str, i)) THEN SkipSpace(str, i + 1) ELSE i
\* \d* from position i: the position after the digits
RECURSIVE SkipDigits(_, _)
SkipDigits(str, i) == IF IsDigit(At(str, i)) THEN SkipDigits(str, i + 1) ELSE i

\* \d+\.\d+ from position i: whether it matches, and the position after it
Decimal(str, i) ==
    LET j == SkipDigits(str, i)
        k == SkipDigits(str, j + 1)
    IN  [ok |-> j > i /\ At(str, j) = "." /\ k > j + 1, from |-> i, to |-> k]

\* ([NS])\s*(\d+\.\d+),\s*([EW])\s*(\d+\.\d+) anchored at position i
MatchAt(str, i) ==
    LET g2 == Decimal(str, SkipSpace(str, i + 1))
        j == SkipSpace(str, g2.to + 1)
        g4 == Decimal(str, SkipSpace(str, j + 1))
        ok == /\ At(str, i) \in {"N", "S"}
              /\ g2.ok
              /\ At(str, g2.to) = ","
              /\ At(str, j) \in {"E", "W"}
              /\ g4.ok
    IN  [ok |-> ok,
         group2 |-> IF ok THEN SubSeq(str, g2.from, g2.to - 1) ELSE <<>>,
         group4 |-> IF ok THEN SubSeq(str, g4.from, g4.to - 1) ELSE <<>>]

\* re.search: the leftmost position where the pattern matches, 0 when none
search(str) ==
    IF \E i \in 1..Len(str) : MatchAt(str, i).ok
    THEN CHOOSE i \in 1..Len(str) :
            /\ MatchAt(str, i).ok
            /\ \A j \in 1..(i - 1) : ~MatchAt(str, j).ok
    ELSE 0

\* float() of the text of a \d+\.\d+ group
RECURSIVE DigitsValue(_, _)
DigitsValue(txt, acc) ==
    IF txt = <<>> THEN acc
    ELSE DigitsValue(Tail(txt),
                     IF Head(txt) = "." THEN acc ELSE 10 * acc + DigitValue(Head(txt)))
RECURSIVE Pow10(_)
Pow10(n) == IF n = 0 THEN 1 ELSE 10 * Pow10(n - 1)
float(txt) ==
    LET dot == CHOOSE i \in 1..Len(txt) : txt[i] = "."
    IN  Rat(DigitsValue(txt, 0), Pow10(Len(txt) - dot))

from_string(string) ==
    LET at == search(string)
    IN  IF at = 0
        THEN None
        ELSE LongLat(float(MatchAt(string, at).group2),
                     float(MatchAt(string, at).group4))

---------------------------------------------------------------------------
(* process_dxf_file *)

Entity(dxftype, layer, location, vertices) ==
    [dxftype |-> dxftype, layer |-> layer, location |-> location,
     vertices |-> vertices]
\* dxf.location is a Vec3; Python's location[0], location[1] are
\* location[1], location[2] here
Vec3(x, y) == <<F(x), F(y), F(0)>>
Vertex(x, y) == [location |-> Vec3(x, y)]

\* one iteration of the loop of lines 96-105 on the state
\* (dxf_cal_points, dxf_boundary, st.success messages)
entity_step(st, entity) ==
    IF entity.dxftype = "POLYLINE"
    THEN IF entity.layer = "POLYLINE"
         THEN [st EXCEPT !.dxf_boundary = entity,
                         !.found = Append(@, <<"success", entity.layer>>)]
         ELSE st
    ELSE IF entity.dxftype = "POINT"
    THEN IF entity.layer \in {"POINT_A", "POINT_B", "POINT_C"}
         THEN [st EXCEPT
                 !.dxf_cal_points =
                     [l \in DOMAIN @ \cup {entity.layer} |->
                         IF l = entity.layer
                         THEN CalPoint(entity.layer,
                                       LongLat(entity.location[1], entity.location[2]))
                         ELSE @[l]],
                 !.found = Append(@, <<"success", entity.layer>>)]
         ELSE st
    ELSE st

RECURSIVE entity_loop(_, _)
entity_loop(st, modelspace) ==
    IF modelspace = <<>> THEN st
    ELSE entity_loop(entity_step(st, Head(modelspace)), Tail(modelspace))

\* the outcome, with the messages shown before it returned or raised
process_dxf_file(dxf) ==
    IF dxf = None
    THEN [raised |-> "AttributeError", value |-> None, found |-> <<>>]
    ELSE
    LET st == entity_loop([dxf_cal_points |-> <<>>, dxf_boundary |-> None,
                           found |-> <<>>], dxf.modelspace)
    IN  IF {"POINT_A", "POINT_B", "POINT_C"} \subseteq DOMAIN st.dxf_cal_points
        THEN [raised |-> "none",
              value |-> DxfGeometry(st.dxf_cal_points["POINT_A"],
                                    st.dxf_cal_points["POINT_B"],
                                    st.dxf_cal_points["POINT_C"],
                                    st.dxf_boundary),
              found |-> st.found]
        ELSE [raised |-> "KeyError", value |-> None, found |-> st.found]

---------------------------------------------------------------------------
(* generate_calibrated_geojson *)

\* variant: each mapped vertex is inserted at the front of the list
RECURSIVE vertex_loop_prepend(_, _, _, _)
vertex_loop_prepend(vertices, t, i, acc) ==
    IF i > Len(vertices) THEN acc
    ELSE vertex_loop_prepend(vertices, t, i + 1,
            <<transform_point(LongLat(vertices[i].location[1],
                                      vertices[i].location[2]), t)>> \o acc)

\* lines 207-210, from vertex i on, boundary_vertices_real being acc
RECURSIVE vertex_loop(_, _, _, _)
vertex_loop(vertices, t, i, acc) ==
    IF i > Len(vertices) THEN acc
    ELSE vertex_loop(vertices, t, i + 1,
            Append(acc, transform_point(LongLat(vertices[i].location[1],
                                                vertices[i].location[2]), t)))

Property(name, longlat) ==
    [name |-> name, longitude |-> longlat.longitude, latitude |-> longlat.latitude]

\* the outcome, with the functions it invoked in order
generate_calibrated_geojson(cal, geom) ==
    LET cad == PointTriplet(geom.point_a, geom.point_b, geom.point_c)
        solved == calculate_transform_params(cal, cad)
        real == transform_cal_points(cad, solved.value)
        mapped == <<"transform_cal_points", "transform_point", "transform_point",
                    "transform_point">>
    IN  IF solved.raised # "none"
        THEN [raised |-> solved.raised, value |-> None,
              calls |-> <<"calculate_transform_params">>]
        ELSE IF geom.boundary = None
        THEN [raised |-> "AttributeError", value |-> None,
              calls |-> <<"calculate_transform_params">> \o mapped]
        ELSE
        LET ring == vertex_loop(geom.boundary.vertices, solved.value, 1, <<>>)
        IN  [raised |-> "none",
             value |->
                [geometry |-> [type |-> "Polygon", coordinates |-> <<ring>>],
                 properties |->
                    ("point_a" :> Property(geom.point_a.name, real.A))
                    @@ (" cal_real" :> Property(geom.point_b.name, real.B))
                    @@ ("point_c" :> Property(geom.point_c.name, real.C))],
             calls |-> <<"calculate_transform_params">> \o mapped
                       \o [i \in 1..Len(ring) |-> "transform_point"]]

---------------------------------------------------------------------------
(* Inputs of the script *)

\* the longer boundary: MaxVertices vertices (1,1), (2,1), (3,0), (4,1), ...
LongBoundary == [i \in 1..MaxVertices |-> Vertex(i, (i * i) % 3)]
ShortBoundary == <<Vertex(2, 2), Vertex(0, 1)>>

Entities ==
    { Entity("POINT", "POINT_A", Vec3(1, 0), <<>>),
      Entity("POINT", "POINT_B", Vec3(1, 2), <<>>),
      Entity("POINT", "POINT_C", Vec3(0, 1), <<>>),
      Entity("POLYLINE", "POLYLINE", Vec3(0, 0), LongBoundary),
      Entity("POLYLINE", "POLYLINE", Vec3(0, 0), ShortBoundary),
      Entity("POLYLINE", "0", Vec3(0, 0), ShortBoundary) }

Modelspaces == UNION {[1..n -> Entities] : n \in 0..MaxEntities}

\* an upload ezdxf reads, or one it rejects with DXFStructureError
Files == {[structure |-> "valid", modelspace |-> m] : m \in Modelspaces}
            \cup {[structure |-> "invalid", modelspace |-> <<>>]}

\* what the user may have typed in each field: one text that parses and one
\* that does not.
\*   A: "N 0.5, E 0.0"        and the empty default
\*   B: "S2.0,W0.0"           and "N 1, E 2"
\*   C: "at N 1.25, E 10.0 !" and "47.5, 7.5"
Texts ==
    [A |-> { <<"N", " ", "0", ".", "5", ",", " ", "E", " ", "0", ".", "0">>,
             <<>> },
     B |-> { <<"S", "2", ".", "0", ",", "W", "0", ".", "0">>,
             <<"N", " ", "1", ",", " ", "E", " ", "2">> },
     C |-> { <<"a", "t", " ", "N", " ", "1", ".", "2", "5", ",", " ", "E", " ",
               "1", "0", ".", "0", " ", "!">>,
             <<"4", "7", ".", "5", ",", " ", "7", ".", "5">> }]

---------------------------------------------------------------------------
(* The script under __main__ *)

CoreIdle ==
    /\ pc = "idle"
    /\ cad_points = None
    /\ cal_points = None
    /\ transform = None
    /\ cal_real = None

UiStart ==
    /\ upc = "start"
    /\ file = None
    /\ dxf_file = None
    /\ dxf_geometry = None
    /\ cal_points_str = None
    /\ ui_cal_points = None
    /\ invalid_count = 0
    /\ calls = <<>>
    /\ messages = <<>>
    /\ written = None

InitUI == CoreIdle /\ UiStart

\* lines 247-251: the uploader's value, and the test on it
FileUploader ==
    /\ upc = "start"
    /\ file' \in Files \cup {None}
    /\ upc' = IF file' # None THEN "read" ELSE "gate"
    /\ UNCHANGED <<dxf_file, dxf_geometry, cal_points_str, ui_cal_points,
                   invalid_count, calls, messages, written>>
    /\ UNCHANGED coreVars

\* lines 252-256: ez.read in its try block
ReadFile ==
    /\ upc = "read"
    /\ calls' = Append(calls, "ez.read")
    /\ IF file.structure = "valid"
       THEN /\ dxf_file' = [modelspace |-> file.modelspace]
            /\ UNCHANGED messages
       ELSE /\ dxf_file' = None
            /\ messages' = Append(messages, <<"error", "DXF file is not valid">>)
    /\ upc' = "process"
    /\ UNCHANGED <<file, dxf_geometry, cal_points_str, ui_cal_points,
                   invalid_count, written>>
    /\ UNCHANGED coreVars

\* line 258: process_dxf_file, called whether or not ez.read succeeded
ProcessDxf ==
    /\ upc = "process"
    /\ calls' = Append(calls, "process_dxf_file")
    /\ LET out == process_dxf_file(dxf_file)
       IN  IF out.raised = "none"
           THEN /\ dxf_geometry' = out.value
                /\ messages' = messages \o out.found
                /\ upc' = "gate"
           ELSE /\ dxf_geometry' = dxf_geometry
                /\ messages' = messages \o out.found \o <<<<"exception", out.raised>>>>
                /\ upc' = "crashed"
    /\ UNCHANGED <<file, dxf_file, cal_points_str, ui_cal_points, invalid_count,
                   written>>
    /\ UNCHANGED coreVars

\* line 260
Gate ==
    /\ upc = "gate"
    /\ upc' = IF dxf_file # None THEN "inputs" ELSE "done"
    /\ UNCHANGED <<file, dxf_file, dxf_geometry, cal_points_str, ui_cal_points,
                   invalid_count, calls, messages, written>>
    /\ UNCHANGED coreVars

Keys == <<"A", "B", "C">>

\* variant: the break leaves the loop after its first iteration
validation_loop_first_only(cal, i, st) ==
    IF cal[Keys[1]] = None
    THEN [invalid_count |-> st.invalid_count + 1,
          errors |-> Append(st.errors, <<"error", "Cal Point is not valid", Keys[1]>>)]
    ELSE st

\* lines 272-276, from the i-th item of cal_points on
RECURSIVE validation_loop(_, _, _)
validation_loop(cal, i, st) ==
    IF i > Len(Keys) THEN st
    ELSE IF cal[Keys[i]] = None
    THEN [invalid_count |-> st.invalid_count + 1,
          errors |-> Append(st.errors, <<"error", "Cal Point is not valid", Keys[i]>>)]
    ELSE validation_loop(cal, i + 1, st)

\* lines 261-276: the three text inputs, their parsing and the validation
TextInputs ==
    /\ upc = "inputs"
    /\ \E sa \in Texts.A, sb \in Texts.B, sc \in Texts.C :
          cal_points_str' = [A |-> sa, B |-> sb, C |-> sc]
    /\ ui_cal_points' = [k \in {"A", "B", "C"} |-> from_string(cal_points_str'[k])]
    /\ calls' = calls \o <<"from_string", "from_string", "from_string">>
    /\ LET st == validation_loop(ui_cal_points', 1,
                                 [invalid_count |-> 0, errors |-> <<>>])
       IN  /\ invalid_count' = st.invalid_count
           /\ messages' = messages \o st.errors
    /\ upc' = IF invalid_count' = 0 THEN "button" ELSE "done"
    /\ UNCHANGED <<file, dxf_file, dxf_geometry, written>>
    /\ UNCHANGED coreVars

\* lines 278-279: the button is shown, and is pressed or not in this run
Button ==
    /\ upc = "button"
    /\ \E clicked \in BOOLEAN : upc' = IF clicked THEN "generate" ELSE "done"
    /\ UNCHANGED <<file, dxf_file, dxf_geometry, cal_points_str, ui_cal_points,
                   invalid_count, calls, messages, written>>
    /\ UNCHANGED coreVars

\* lines 280-286
Generate ==
    /\ upc = "generate"
    /\ IF dxf_geometry # None
       THEN LET out == generate_calibrated_geojson(ui_cal_points, dxf_geometry)
            IN  /\ calls' = calls \o <<"generate_calibrated_geojson">> \o out.calls
                /\ IF out.raised = "none"
                   THEN /\ written' = out.value
                        /\ UNCHANGED messages
                        /\ upc' = "done"
                   ELSE /\ UNCHANGED written
                        /\ messages' = Append(messages, <<"exception", out.raised>>)
                        /\ upc' = "crashed"
       ELSE /\ UNCHANGED <<calls, written, messages>>
            /\ upc' = "done"
    /\ UNCHANGED <<file, dxf_file, dxf_geometry, cal_points_str, ui_cal_points,
                   invalid_count>>
    /\ UNCHANGED coreVars

\* Streamlit runs the script again from the top on the next interaction
Rerun ==
    /\ upc \in {"done", "crashed"}
    /\ upc' = "start"
    /\ file' = None
    /\ dxf_file' = None
    /\ dxf_geometry' = None
    /\ cal_points_str' = None
    /\ ui_cal_points' = None
    /\ invalid_count' = 0
    /\ calls' = <<>>
    /\ messages' = <<>>
    /\ written' = None
    /\ UNCHANGED coreVars

NextUI ==
    \/ FileUploader
    \/ ReadFile
    \/ ProcessDxf
    \/ Gate
    \/ TextInputs
    \/ Button
    \/ Generate
    \/ Rerun

SpecUI == InitUI /\ [][NextUI]_vars

---------------------------------------------------------------------------
(* Claims about the core *)

Solved == pc \in {"solved", "mapped"}
T == transform.value
cadA == cad_points.A.longlat
cadB == cad_points.B.longlat
\* u = B - A in drawing space, v = b - a in target space
ux == RSub(cadB.longitude, cadA.longitude)
uy == RSub(cadB.latitude, cadA.latitude)
vx == RSub(cal_points.B.longitude, cal_points.A.longitude)
vy == RSub(cal_points.B.latitude, cal_points.A.latitude)
Dot(px, py, qx, qy) == RAdd(RMul(px, qx), RMul(py, qy))
AsTuple(p) == <<p.longitude, p.latitude>>

\* C1: once a transform is solved from A<->a, B<->b (A # B), mapping A with
\* it gives a and mapping B with it gives b.
C1_RoundTrip ==
    Solved =>
        /\ transform_point(cadA, T) = AsTuple(cal_points.A)
        /\ transform_point(cadB, T) = AsTuple(cal_points.B)

\* C2: when A and B coincide in drawing space the solve ends with a
\* DegenerateCorrespondence condition (no division by zero, no Transform).
C2_Degenerate ==
    (pc # "input" /\ cadA = cadB) =>
        /\ pc = "raised"
        /\ transform.raised = "DegenerateCorrespondence"

\* C3: the solved Transform (or the failure) is the same whatever the
\* drawing-space and target-space coordinates of the C correspondence are.
AltThird == ThirdPoints \cup {Pt(MaxCoord, 0), Pt(-1, MaxLen + 1)}
C3_UnusedThirdPoint ==
    pc # "input" =>
        \A C \in AltThird, c \in AltThird :
            calculate_transform_params(
                [cal_points EXCEPT !.C = c],
                [cad_points EXCEPT !.C = CalPoint("POINT_C", C)]) = transform
C3_Witness ==
    /\ pc = "solved"
    /\ cad_points.C.longlat = Pt(1, 1)
    /\ cal_points.C = Pt(0, 1)
    /\ T.s = F(2)
    /\ T.theta = 1

\* C5: theta is the signed angle from the drawing baseline u to the target
\* baseline v, angle(v) - angle(u); u = (1,0), v = (0,1) from the origin
\* gives theta = +pi/2 (one quarter turn), s = 1, dx = dy = 0.
C5_RotationSign ==
    (Solved /\ ~(RIsZero(vx) /\ RIsZero(vy))) =>
        /\ T.theta = atan2(vy, vx) - atan2(uy, ux)
        /\ (/\ cadA = Pt(0, 0) /\ cadB = Pt(1, 0)
            /\ cal_points.A = Pt(0, 0) /\ cal_points.B = Pt(0, 1))
           => T = Transform(F(1), F(0), F(0), 1)

\* C6 as stated: s * (u . u) = (u . v), hence s < 0 for opposite baselines.
C6_ScaleProjection ==
    Solved => RMul(T.s, Dot(ux, uy, ux, uy)) = Dot(ux, uy, vx, vy)
\* C6 as amended: s = |v| / |u|, that is s >= 0 and s^2 * (u . u) = (v . v);
\* s is never negative, also when the baselines point in opposite
\* directions; A=(0,0), B=(1,0), a=(0,0), b=(2,0) gives s = 2.
C6_ScaleRatio ==
    Solved =>
        /\ RSign(T.s) >= 0
        /\ RMul(RMul(T.s, T.s), Dot(ux, uy, ux, uy)) = Dot(vx, vy, vx, vy)
        /\ (/\ cadA = Pt(0, 0) /\ cadB = Pt(1, 0)
            /\ cal_points.A = Pt(0, 0) /\ cal_points.B = Pt(2, 0))
           => T.s = F(2)
C6_Witness ==
    /\ pc = "solved"
    /\ RSign(Dot(ux, uy, vx, vy)) < 0
    /\ T.s = Rat(1, 2)

\* C9: transform_point scales by s, adds (dx, dy), then rotates the result
\* counter-clockwise by theta; with theta = 0 the image is (s*x+dx, s*y+dy);
\* transform_cal_points returns the images of A, B, C under "A", "B", "C"
\* and leaves the points and the transform as they were.
QuarterTurn(p) == <<RNeg(p[2]), p[1]>>
RECURSIVE Rotate(_, _)
Rotate(p, k) == IF k = 0 THEN p ELSE Rotate(QuarterTurn(p), k - 1)
ScaleShift(p, t) ==
    <<RAdd(RMul(t.s, p.longitude), t.dx), RAdd(RMul(t.s, p.latitude), t.dy)>>
Image(p, t) == Rotate(ScaleShift(p, t), t.theta % 4)
C9_ApplyComposition ==
    [][(pc = "solved" /\ pc' = "mapped") =>
          /\ DOMAIN cal_real' = {"A", "B", "C"}
          /\ \A k \in {"A", "B", "C"} :
                /\ AsTuple(cal_real'[k]) = Image(cad_points[k].longlat, T)
                /\ T.theta = 0 =>
                      AsTuple(cal_real'[k]) = ScaleShift(cad_points[k].longlat, T)
          /\ cad_points' = cad_points
          /\ transform' = transform]_vars
C9_Witness ==
    /\ pc = "mapped"
    /\ T.theta = 1
    /\ T.s = F(2)
    /\ T.dx = F(1)
    /\ cadA = Pt(0, 1)
    /\ cal_real.A = Pt(-2, 1)

---------------------------------------------------------------------------
(* Claims about ingestion and the script *)

Invoked(f) == \E i \in 1..Len(calls) : calls[i] = f
Shown(m) == \E i \in 1..Len(messages) : messages[i] = m
CoreInvoked ==
    \/ Invoked("generate_calibrated_geojson")
    \/ Invoked("calculate_transform_params")
    \/ Invoked("transform_point")

\* C4: the ring written has one point per boundary vertex, and its i-th
\* point is transform_point of the i-th vertex under the solved transform.
Ring == written.geometry.coordinates[1]
BoundaryVertices == dxf_geometry.boundary.vertices
SolvedUI ==
    calculate_transform_params(
        ui_cal_points,
        PointTriplet(dxf_geometry.point_a, dxf_geometry.point_b,
                     dxf_geometry.point_c)).value
C4_OrderPreservation ==
    written # None =>
        /\ Len(written.geometry.coordinates) = 1
        /\ Len(Ring) = Len(BoundaryVertices)
        /\ \A i \in 1..Len(BoundaryVertices) :
              Ring[i] = transform_point(
                            LongLat(BoundaryVertices[i].location[1],
                                    BoundaryVertices[i].location[2]), SolvedUI)
C4_Witness ==
    /\ upc = "done"
    /\ written # None
    /\ Len(Ring) = MaxVertices
    /\ Ring[1] # Ring[MaxVertices]
    /\ SolvedUI.theta = 1

\* C7: a drawing that lacks a POINT on one of the three layers, or whose
\* number of boundary polylines is not one, ends process_dxf_file with an
\* error and no DxfGeometry, and the core is never invoked on it.
PointLayers(m) == {m[i].layer : i \in {j \in 1..Len(m) : m[j].dxftype = "POINT"}}
BoundaryCount(m) ==
    Cardinality({i \in 1..Len(m) :
                    m[i].dxftype = "POLYLINE" /\ m[i].layer = "POLYLINE"})
Mismatch(m) ==
    \/ ~({"POINT_A", "POINT_B", "POINT_C"} \subseteq PointLayers(m))
    \/ BoundaryCount(m) # 1
C7_IngestionFirst ==
    (/\ file # None
     /\ file.structure = "valid"
     /\ Mismatch(file.modelspace)
     /\ Invoked("process_dxf_file")) =>
        /\ upc = "crashed"
        /\ dxf_geometry = None
        /\ ~CoreInvoked

\* C8: generate_calibrated_geojson is invoked only in a run where the three
\* texts parsed; when from_string gave None for any field, an error is
\* shown and the run ends without the solve.
Parsed(k) == from_string(cal_points_str[k]) # None
C8_SolveBlocked ==
    /\ CoreInvoked => \A k \in {"A", "B", "C"} : Parsed(k)
    /\ (cal_points_str # None /\ \E k \in {"A", "B", "C"} : ~Parsed(k)) =>
          /\ upc = "done"
          /\ \E k \in {"A", "B", "C"} :
                ~Parsed(k) /\ Shown(<<"error", "Cal Point is not valid", k>>)
          /\ ~CoreInvoked
C8_Witness ==
    /\ upc = "done"
    /\ cal_points_str # None
    /\ Parsed("A")
    /\ ~Parsed("B")
    /\ Parsed("C")
    /\ Shown(<<"error", "Cal Point is not valid", "B">>)
    /\ ~CoreInvoked

\* C10: when ez.read fails with DXFStructureError the error is shown and
\* process_dxf_file is not invoked; nothing after it is reached.
C10_InvalidUploadStops ==
    (/\ file # None
     /\ file.structure = "invalid"
     /\ upc \notin {"start", "read"}) =>
        /\ Shown(<<"error", "DXF file is not valid">>)
        /\ ~Invoked("process_dxf_file")
        /\ ~Invoked("from_string")
        /\ ~CoreInvoked

=============================================================================
